---- MODULE Spec2Model ----
(***************************************************************************)
(* Model of adapt/feature_based/_fe.py: class FE, the "Frustratingly Easy" *)
(* feature augmentation wrapped around an estimator.                       *)
(*                                                                         *)
(* A matrix is a sequence of rows, a row is a sequence of numbers.  The    *)
(* augmenter object is the record self; the process-wide random-number     *)
(* state is rng; last records the most recent call on the augmenter (its   *)
(* arguments, how it ended, what it returned and the estimator calls it    *)
(* made).  The verbose progress lines are not modelled, and the inputs are *)
(* matrices already in the canonical form check_one_array returns.         *)
(***************************************************************************)
EXTENDS Integers, Sequences, FiniteSets, TLC

VARIABLES self, rng, fitted, last

vars == <<self, rng, fitted, last>>

(* ---------------------------- bounds ---------------------------------- *)
\* rows of a training set, source and target together
MaxRows == 3

\* features of an input row
MaxDim == 2

\* numbers other code draws from the global generator between two reseedings
MaxDraws == 1

(* ------------------------- input families ----------------------------- *)
\* an n x d matrix whose cells are numbered row by row from k on: all its
\* cells differ, and with k = 0 its first cell is zero and no other is
Mat(n, d, k) == [i \in 1..n |-> [j \in 1..d |-> k + (i - 1) * d + (j - 1)]]

\* an n x 1 label column numbered from k on
Col(n, k) == [i \in 1..n |-> <<k + i - 1>>]

\* the matrices a caller passes to predict and predict_features
Matrices == {Mat(n, d, 0) : n \in 1..(MaxRows - 1), d \in 1..MaxDim}

Domains == {"tgt", "target", "src", "source", "SRC", "Target", "unknown"}

\* the domain argument as the caller passes it: absent, or one string
DomainArgs == {<<>>} \cup {<<s>> : s \in Domains}

Seeds == {0, 1}

\* random_state as given to the constructor: None (the empty tuple) or an int
RandomStates == {<<>>} \cup {<<s>> : s \in Seeds}

\* what the operating system's entropy can seed the generator with
Entropy == {"e1", "e2"}

FitParams == {<<>>, <<"sample_weight">>}

\* estimator objects: the caller's, a copy of the caller's, a fresh default
CallerEstimator == "caller_estimator"
CopiedEstimator == "copy_of_caller_estimator"
DefaultEstimator == "default_linear_regression"

(* --------------------------- numpy ------------------------------------ *)
\* a matrix of ones where the code makes one of zeros
Ones(X) == [i \in 1..Len(X) |-> [j \in 1..Len(X[i]) |-> 1]]

\* np.zeros(X.shape)
Zeros(X) == [i \in 1..Len(X) |-> [j \in 1..Len(X[i]) |-> 0]]

\* np.concatenate((A, B, C), axis=-1) of three matrices with equal row counts
ConcatCols(A, B, C) == [i \in 1..Len(A) |-> A[i] \o B[i] \o C[i]]

\* np.concatenate((A, B)) along axis 0; numpy raises when the widths differ
CanConcatRows(A, B) == Len(A[1]) = Len(B[1])

ConcatRows(A, B) == A \o B

\* np.random.seed(s) and tf.random.set_seed(s): with an int the state is a
\* function of s, with None it is drawn from the operating system's entropy e
Seeded(random_state, e) ==
    IF random_state = <<>>
    THEN [src |-> <<"os", e>>, draws |-> 0]
    ELSE [src |-> <<"seed", ToString(random_state[1])>>, draws |-> 0]

EntropyFor(random_state) == IF random_state = <<>> THEN Entropy ELSE {"e1"}

\* one number drawn from the generator by any code of the process
Draw(r) == [r EXCEPT !.draws = @ + 1]

(* ------------------------- adapt.utils -------------------------------- *)
\* check_estimator(estimator, copy): None gives a fresh LinearRegression,
\* copy=True a deep copy of the caller's estimator, copy=False the caller's
check_estimator(estimator, copy) ==
    IF estimator = <<>> THEN DefaultEstimator
    ELSE IF copy THEN CopiedEstimator
    ELSE estimator[1]

\* check_arrays(Xs, ys, Xt, yt): each X must have as many rows as its y
check_arrays(Xs, ys, Xt, yt) == Len(Xs) = Len(ys) /\ Len(Xt) = Len(yt)

(* ------------------------------ FE ------------------------------------ *)
\* FE.__init__
FE_init(estimator, copy, random_state) ==
    [estimator_ |-> check_estimator(estimator, copy),
     copy |-> copy,
     random_state |-> random_state]

\* the augmentation with the blocks in the order the class docstring gives
fit_embeddings_doc(Xs, Xt) ==
    <<ConcatCols(Xs, Xs, Zeros(Xs)), ConcatCols(Xt, Zeros(Xt), Xt)>>

\* FE.fit_embeddings
fit_embeddings(Xs, Xt) ==
    <<ConcatCols(Xs, Zeros(Xs), Xs), ConcatCols(Zeros(Xt), Xt, Xt)>>

\* predict_features with "src" as the default domain
predict_features_default_src(X, domain_arg) ==
    LET domain == IF domain_arg = <<>> THEN "src" ELSE domain_arg[1] IN
    IF domain \in {"tgt", "target"}
    THEN [status |-> "ok", value |-> ConcatCols(Zeros(X), X, X)]
    ELSE IF domain \in {"src", "source"}
    THEN [status |-> "ok", value |-> ConcatCols(X, Zeros(X), X)]
    ELSE [status |-> "ValueError",
          value |-> <<"domain argument should be tgt or src, got, ", domain>>]

\* predict_features matching the aliases whatever their case
predict_features_any_case(X, domain_arg) ==
    LET domain == IF domain_arg = <<>> THEN "tgt" ELSE domain_arg[1] IN
    IF domain \in {"tgt", "target", "Target"}
    THEN [status |-> "ok", value |-> ConcatCols(Zeros(X), X, X)]
    ELSE IF domain \in {"src", "source", "SRC"}
    THEN [status |-> "ok", value |-> ConcatCols(X, Zeros(X), X)]
    ELSE [status |-> "ValueError",
          value |-> <<"domain argument should be tgt or src, got, ", domain>>]

\* FE.predict_features; an absent domain argument takes the default "tgt".
\* The error's message is the format string's text followed by the domain.
predict_features(X, domain_arg) ==
    LET domain == IF domain_arg = <<>> THEN "tgt" ELSE domain_arg[1] IN
    IF domain \in {"tgt", "target"}
    THEN [status |-> "ok", value |-> ConcatCols(Zeros(X), X, X)]
    ELSE IF domain \in {"src", "source"}
    THEN [status |-> "ok", value |-> ConcatCols(X, Zeros(X), X)]
    ELSE [status |-> "ValueError",
          value |-> <<"domain argument should be tgt or src, got, ", domain>>]

\* one invocation of a method of an estimator object, with the random-number
\* state the estimator finds as the invocation starts and how it ends
EstimatorCall(method, target, X, y, fit_params, r, outcome) ==
    [method |-> method, target |-> target, X |-> X, y |-> y,
     fit_params |-> fit_params, rng |-> r, outcome |-> outcome]

FitOutcomes == {"fitted", "EstimatorError"}

PredictOutcomes == {"y_pred", "EstimatorError"}

\* fit_estimator fitting a clone of the held estimator and keeping the clone
fit_estimator_clone(me, r0, X, y, fit_params, e, outcome) ==
    LET r == Seeded(me.random_state, e) IN
    [self |-> [me EXCEPT !.estimator_ = "clone_of_" \o me.estimator_], rng |-> r,
     status |-> IF outcome = "EstimatorError" THEN "EstimatorError" ELSE "ok",
     value |-> outcome,
     calls |-> <<EstimatorCall("fit", "clone_of_" \o me.estimator_, X, y, fit_params, r, outcome)>>]

\* fit_estimator without the reseeding
fit_estimator_no_reseed(me, r0, X, y, fit_params, e, outcome) ==
    [self |-> me, rng |-> r0,
     status |-> IF outcome = "EstimatorError" THEN "EstimatorError" ELSE "ok",
     value |-> outcome,
     calls |-> <<EstimatorCall("fit", me.estimator_, X, y, fit_params, r0, outcome)>>]

\* FE.fit_estimator: reseed, then estimator_.fit(X, y, **fit_params); r0 is
\* the process-wide random-number state the call finds
fit_estimator(me, r0, X, y, fit_params, e, outcome) ==
    LET r == Seeded(me.random_state, e) IN
    [self |-> me, rng |-> r,
     status |-> IF outcome = "EstimatorError" THEN "EstimatorError" ELSE "ok",
     value |-> outcome,
     calls |-> <<EstimatorCall("fit", me.estimator_, X, y, fit_params, r, outcome)>>]

\* fit stacking the target rows of X above the source rows
fit_target_first(me, r0, Xs, ys, Xt, yt, fit_params, e, outcome) ==
    IF ~check_arrays(Xs, ys, Xt, yt)
    THEN [self |-> me, rng |-> r0, status |-> "DataFormatError", value |-> <<>>, calls |-> <<>>]
    ELSE LET emb == fit_embeddings(Xs, Xt) IN
         IF ~CanConcatRows(emb[1], emb[2])
         THEN [self |-> me, rng |-> r0, status |-> "ValueError", value |-> <<>>, calls |-> <<>>]
         ELSE LET X == ConcatRows(emb[2], emb[1])
                  y == ConcatRows(ys, yt)
                  f == fit_estimator(me, r0, X, y, fit_params, e, outcome)
              IN  IF f.status = "ok" THEN [f EXCEPT !.value = "self"] ELSE f

\* FE.fit
fit(me, r0, Xs, ys, Xt, yt, fit_params, e, outcome) ==
    IF ~check_arrays(Xs, ys, Xt, yt)
    THEN [self |-> me, rng |-> r0, status |-> "DataFormatError", value |-> <<>>, calls |-> <<>>]
    ELSE LET emb == fit_embeddings(Xs, Xt) IN
         IF ~CanConcatRows(emb[1], emb[2])
         THEN [self |-> me, rng |-> r0, status |-> "ValueError", value |-> <<>>, calls |-> <<>>]
         ELSE LET X == ConcatRows(emb[1], emb[2])
                  y == ConcatRows(ys, yt)
                  f == fit_estimator(me, r0, X, y, fit_params, e, outcome)
              IN  IF f.status = "ok" THEN [f EXCEPT !.value = "self"] ELSE f

\* predict asking the estimator before the domain is looked at
predict_eager(me, r0, X, domain_arg, outcome) ==
    LET pf == predict_features(X, domain_arg)
        call == EstimatorCall("predict", me.estimator_, X, <<>>, <<>>, r0, outcome)
    IN
    IF pf.status # "ok"
    THEN [self |-> me, rng |-> r0, status |-> pf.status, value |-> pf.value, calls |-> <<call>>]
    ELSE [self |-> me, rng |-> r0,
          status |-> IF outcome = "EstimatorError" THEN "EstimatorError" ELSE "ok",
          value |-> outcome,
          calls |-> <<EstimatorCall("predict", me.estimator_, pf.value, <<>>, <<>>, r0, outcome)>>]

\* predict handing the estimator X itself instead of the augmented X
predict_raw(me, r0, X, domain_arg, outcome) ==
    LET pf == predict_features(X, domain_arg) IN
    IF pf.status # "ok"
    THEN [self |-> me, rng |-> r0, status |-> pf.status, value |-> pf.value, calls |-> <<>>]
    ELSE [self |-> me, rng |-> r0,
          status |-> IF outcome = "EstimatorError" THEN "EstimatorError" ELSE "ok",
          value |-> outcome,
          calls |-> <<EstimatorCall("predict", me.estimator_, X, <<>>, <<>>, r0, outcome)>>]

\* FE.predict
predict(me, r0, X, domain_arg, outcome) ==
    LET pf == predict_features(X, domain_arg) IN
    IF pf.status # "ok"
    THEN [self |-> me, rng |-> r0, status |-> pf.status, value |-> pf.value, calls |-> <<>>]
    ELSE [self |-> me, rng |-> r0,
          status |-> IF outcome = "EstimatorError" THEN "EstimatorError" ELSE "ok",
          value |-> outcome,
          calls |-> <<EstimatorCall("predict", me.estimator_, pf.value, <<>>, <<>>, r0, outcome)>>]

(* ----------------------------- state ---------------------------------- *)
Init ==
    \E estimator \in {<<>>, <<CallerEstimator>>}, copy \in BOOLEAN,
       random_state \in RandomStates :
    \E e \in EntropyFor(random_state) :
        /\ estimator = <<>> => copy
        /\ self = FE_init(estimator, copy, random_state)
        /\ rng = Seeded(random_state, e)
        /\ fitted = FALSE
        /\ last = [op |-> "__init__", args |-> <<estimator, copy, random_state>>,
                   status |-> "ok", value |-> "self", calls |-> <<>>]

\* what a call leaves behind; the held estimator is fitted once its fit
\* has returned
Record(op, args, r) ==
    /\ self' = r.self
    /\ rng' = r.rng
    /\ last' = [op |-> op, args |-> args, status |-> r.status, value |-> r.value,
                calls |-> r.calls]
    /\ fitted' = (fitted \/ \E i \in 1..Len(r.calls) :
                                r.calls[i].method = "fit" /\ r.calls[i].outcome = "fitted")

\* the training sets a caller passes: a source set of n rows and a target
\* set of m rows (at most MaxRows in all) whose cells all differ, then the same with a target set of
\* another width (when there is one) and with the two label columns swapped
WellFormedInputs ==
    {<<Mat(nm[1], d, 0), Col(nm[1], 0), Mat(nm[2], d, nm[1] * d), Col(nm[2], nm[1])>> :
        nm \in {p \in (1..MaxRows) \X (1..MaxRows) : p[1] + p[2] <= MaxRows},
        d \in 1..MaxDim}

FitInputs ==
    WellFormedInputs
    \cup {<<in[1], in[2], Mat(Len(in[3]), (Len(in[3][1]) % MaxDim) + 1, 0), in[4]>> :
            in \in WellFormedInputs}
    \cup {<<in[1], in[4], in[3], in[2]>> : in \in WellFormedInputs}

\* the estimator's outcome and the entropy are drawn only when the call
\* reaches the estimator
Fit ==
    \E in \in FitInputs, fit_params \in FitParams :
        LET args == <<in[1], in[2], in[3], in[4], fit_params>>
            dry == fit(self, rng, in[1], in[2], in[3], in[4], fit_params, "e1", "fitted")
        IN  IF dry.calls = <<>>
            THEN Record("fit", args, dry)
            ELSE \E outcome \in FitOutcomes, e \in EntropyFor(self.random_state) :
                     Record("fit", args,
                            fit(self, rng, in[1], in[2], in[3], in[4], fit_params, e, outcome))

FitEmbeddings ==
    \E in \in FitInputs :
        Record("fit_embeddings", <<in[1], in[3]>>,
               [self |-> self, rng |-> rng, status |-> "ok",
                value |-> fit_embeddings(in[1], in[3]), calls |-> <<>>])

PredictFeatures ==
    \E X \in Matrices, domain_arg \in DomainArgs :
        LET pf == predict_features(X, domain_arg) IN
        Record("predict_features", <<X, domain_arg>>,
               [self |-> self, rng |-> rng, status |-> pf.status,
                value |-> pf.value, calls |-> <<>>])

Predict ==
    \E X \in Matrices, domain_arg \in DomainArgs :
        LET dry == predict(self, rng, X, domain_arg, "y_pred")
        IN  IF dry.calls = <<>>
            THEN Record("predict", <<X, domain_arg>>, dry)
            ELSE \E outcome \in PredictOutcomes :
                     Record("predict", <<X, domain_arg>>,
                            predict(self, rng, X, domain_arg, outcome))

\* any other code of the process draws from the global generator
RandomDraw ==
    /\ rng.draws < MaxDraws
    /\ rng' = Draw(rng)
    /\ UNCHANGED <<self, fitted, last>>

Next == Fit \/ FitEmbeddings \/ PredictFeatures \/ Predict \/ RandomDraw

Spec == Init /\ [][Next]_vars

(* ---------------------------- claims ---------------------------------- *)
\* the zero vector of dimension d
ZeroVec(d) == [j \in 1..d |-> 0]

\* the three blocks of an augmented row of an input row of dimension d
Block1(row, d) == SubSeq(row, 1, d)

Block2(row, d) == SubSeq(row, d + 1, 2 * d)

Block3(row, d) == SubSeq(row, 2 * d + 1, 3 * d)

ValidDomains == {"src", "source", "tgt", "target"}

\* the domain a call was made with, the default resolved
DomainOf(domain_arg) == IF domain_arg = <<>> THEN "tgt" ELSE domain_arg[1]

C3_InvalidDomain ==
    (last.op = "predict_features" /\ DomainOf(last.args[2]) \notin ValidDomains) =>
        /\ last.status = "ValueError"
        /\ \E i \in 1..Len(last.value) : last.value[i] = last.args[2][1]

\* "SRC" is rejected
C3_Witness ==
    /\ last.op = "predict_features"
    /\ last.args[2] = <<"SRC">>
    /\ last.status = "ValueError"
    /\ last.value[2] = "SRC"

\* C4: a predict call with an unrecognized domain ends in the ValueError
\* without any estimator call, and leaves the held estimator and its
\* unfit/fit phase as they were.
C4_NoEstimatorCall ==
    [][(last'.op = "predict" /\ DomainOf(last'.args[2]) \notin ValidDomains) =>
            /\ last'.status = "ValueError"
            /\ last'.calls = <<>>
            /\ self' = self
            /\ fitted' = fitted]_vars

\* predict with domain "unknown" on a fit augmenter
C4_Witness ==
    /\ last.op = "predict"
    /\ last.args[2] = <<"unknown">>
    /\ last.status = "ValueError"
    /\ last.calls = <<>>
    /\ fitted

AugmentedRows ==
    IF last.op = "fit_embeddings"
    THEN {<<last.args[1][i], last.value[1][i], TRUE>> : i \in 1..Len(last.args[1])}
         \cup {<<last.args[2][j], last.value[2][j], FALSE>> : j \in 1..Len(last.args[2])}
    ELSE IF last.op = "predict_features" /\ last.status = "ok"
    THEN {<<last.args[1][i], last.value[i], DomainOf(last.args[2]) \in {"src", "source"}>> :
            i \in 1..Len(last.args[1])}
    ELSE {}

C8_Docstring ==
    \A a \in AugmentedRows :
        LET x == a[1]
            d == Len(a[1])
        IN  /\ Block1(a[2], d) = x
            /\ Block2(a[2], d) = IF a[3] THEN x ELSE ZeroVec(d)
            /\ Block3(a[2], d) = IF a[3] THEN ZeroVec(d) ELSE x

\* C9: no step replaces the estimator the augmenter holds, and every
\* estimator call a step makes is made on it.
C9_SameEstimator ==
    [][/\ self'.estimator_ = self.estimator_
       /\ \A i \in 1..Len(last'.calls) : last'.calls[i].target = self.estimator_]_vars

\* the caller's own estimator, fitted and then asked to predict
C9_Witness ==
    /\ self.estimator_ = CallerEstimator
    /\ fitted
    /\ last.op = "predict"
    /\ Len(last.calls) = 1
    /\ last.calls[1].target = CallerEstimator

\* C10 as stated: whatever the configuration, two fit calls present the
\* estimator with the same random-number state.
C10_Original ==
    [][(/\ last.op = "fit" /\ last.calls # <<>>
        /\ last'.op = "fit" /\ last'.calls # <<>>) =>
            last'.calls[1].rng = last.calls[1].rng]_vars

\* C10 amended: when random_state is an int, the random-number state the
\* estimator's fit finds is the freshly seeded state of that int, nothing
\* drawn from it; (with random_state None it is drawn from OS entropy).
C10_Reseeded ==
    (last.op = "fit" /\ last.calls # <<>> /\ self.random_state # <<>>) =>
        /\ last.calls[1].rng.src = <<"seed", ToString(self.random_state[1])>>
        /\ last.calls[1].rng.draws = 0

\* a fit with random_state = 1 whose estimator call was made
C10_Witness ==
    /\ last.op = "fit"
    /\ last.calls # <<>>
    /\ self.random_state = <<1>>
    /\ last.calls[1].rng = [src |-> <<"seed", "1">>, draws |-> 0]

====
